---- MODULE Spec2Model ----
(***************************************************************************)
(* A model of substudy's SRT support (src/substudy/src/srt.rs): the time   *)
(* formatter, the PEG grammar behind SubtitleFile::from_str, the           *)
(* serializer, find and append_with_offset.                                *)
(*                                                                         *)
(* Text is a sequence of characters (one-character strings; the line feed, *)
(* the carriage return and the byte-order mark are the named characters    *)
(* LF, CR and BOM).  Times are f32 values, kept as a 24-bit significand m  *)
(* and an exponent e (value m * 2^e, 2^23 <= m < 2^24, or m = 0), so that  *)
(* every rounding of the single-precision arithmetic is computed.          *)
(***************************************************************************)
EXTENDS Integers, Sequences, FiniteSets

VARIABLES pc, shape, text, res, out, self, before, other, offset, arg, found, t, fmt

vars == <<pc, shape, text, res, out, self, before, other, offset, arg, found, t, fmt>>

parseVars == <<shape, text, res, out>>
fileVars == <<self, before, other, offset, arg, found>>
timeVars == <<t, fmt>>

None == "none"

-----------------------------------------------------------------------------
(* Characters *)

LF == "<LF>"
CR == "<CR>"
BOM == "<BOM>"

DigitChars == <<"0", "1", "2", "3", "4", "5", "6", "7", "8", "9">>

IsDigit(c) == \E d \in 1..10 : DigitChars[d] = c

DigitVal(c) == (CHOOSE d \in 1..10 : DigitChars[d] = c) - 1

RECURSIVE Repeat(_, _)
Repeat(c, n) == IF n = 0 THEN <<>> ELSE <<c>> \o Repeat(c, n - 1)

\* Display of an unsigned integer: its decimal digits, no padding.
RECURSIVE ToDigits(_)
ToDigits(n) ==
    IF n < 10 THEN <<DigitChars[n + 1]>>
    ELSE ToDigits(n \div 10) \o <<DigitChars[(n % 10) + 1]>>

\* The width/fill part of a format spec such as {:02} or {:0>6.3}.
PadLeft(s, width, fill) ==
    IF Len(s) >= width THEN s ELSE Repeat(fill, width - Len(s)) \o s

\* str::replace for a one-character pattern.
Replace(s, from, to) == [i \in 1..Len(s) |-> IF s[i] = from THEN to ELSE s[i]]

RECURSIVE Join(_, _)
Join(parts, sep) ==
    IF Len(parts) = 0 THEN <<>>
    ELSE IF Len(parts) = 1 THEN parts[1]
    ELSE parts[1] \o sep \o Join(Tail(parts), sep)

\* The value of F at x, with x evaluated once.
Strict(x, F(_)) == CHOOSE v \in {F(y) : y \in {x}} : TRUE

-----------------------------------------------------------------------------
(* f32 arithmetic on non-negative finite values below 2^24 *)

Mant == 2^23

F32Zero == [m |-> 0, e |-> 0]

\* Round-to-nearest-even of (q + f/den) * 2^e to a 24-bit significand,
\* producing significand bits one at a time (binary long division).
RECURSIVE F32Norm(_, _, _, _)
F32Norm(q, f, den, e) ==
    IF q = 0 /\ f = 0 THEN F32Zero
    ELSE IF q >= Mant THEN
        LET up == 2 * f > den \/ (2 * f = den /\ q % 2 = 1)
            q2 == IF up THEN q + 1 ELSE q
        IN  IF q2 = 2 * Mant THEN [m |-> Mant, e |-> e + 1]
            ELSE [m |-> q2, e |-> e]
    ELSE F32Norm(2 * q + (2 * f) \div den, (2 * f) % den, den, e - 1)

\* The f32 nearest to ip + f/den (f < den): what f32::from_str gives for a
\* decimal numeral, and what `n as f32` gives for an integer below 2^24.
F32OfDecimal(ip, f, den) ==
    Strict(<<ip, f, den>>, LAMBDA x : F32Norm(x[1], x[2], x[3], 0))

F32OfInt(n) == F32OfDecimal(n, 0, 1)

F32Lt(a, b) ==
    IF b.m = 0 THEN FALSE
    ELSE IF a.m = 0 THEN TRUE
    ELSE a.e < b.e \/ (a.e = b.e /\ a.m < b.m)

\* a + b with a.e >= b.e, both non-zero.
F32AddOrdered(a, b) ==
    LET d == a.e - b.e
    IN  IF d >= 26 THEN a
        ELSE
            LET p == 2^d
                q == b.m \div p
                r == b.m % p
                sum == a.m + q
            IN  IF sum < 2 * Mant THEN
                    LET up == 2 * r > p \/ (2 * r = p /\ sum % 2 = 1)
                        s2 == IF up THEN sum + 1 ELSE sum
                    IN  IF s2 = 2 * Mant THEN [m |-> Mant, e |-> a.e + 1]
                        ELSE [m |-> s2, e |-> a.e]
                ELSE
                    LET h == sum \div 2
                        bit == sum % 2
                        up == bit = 1 /\ (r > 0 \/ h % 2 = 1)
                        h2 == IF up THEN h + 1 ELSE h
                    IN  IF h2 = 2 * Mant THEN [m |-> Mant, e |-> a.e + 2]
                        ELSE [m |-> h2, e |-> a.e + 1]

F32Add(a, b) ==
    Strict(<<a, b>>, LAMBDA x :
        IF x[1].m = 0 THEN x[2]
        ELSE IF x[2].m = 0 THEN x[1]
        ELSE IF x[1].e >= x[2].e THEN F32AddOrdered(x[1], x[2])
        ELSE F32AddOrdered(x[2], x[1]))

\* The integer part and the fraction (numerator over 2^k) of a value.
F32IntPart(x) ==
    IF x.m = 0 \/ -x.e >= 24 THEN 0 ELSE x.m \div 2^(-x.e)

F32FracNum(x) ==
    IF x.m = 0 THEN 0
    ELSE IF -x.e >= 24 THEN x.m
    ELSE x.m % 2^(-x.e)

\* fn / 2^k (a fraction below 1) in thousandths, rounded half to even: the
\* digits that a precision of .3 prints.
RoundMillis(fn, k) ==
    IF k <= 3 THEN fn * (1000 \div 2^k)
    ELSE IF k <= 33 THEN
        LET n == fn * 125
            d == 2^(k - 3)
            q == n \div d
            r == n % d
            half == d \div 2
        IN  IF r > half \/ (r = half /\ q % 2 = 1) THEN q + 1 ELSE q
    ELSE IF k = 34 THEN (IF fn * 125 > 2^30 THEN 1 ELSE 0)
    ELSE 0

-----------------------------------------------------------------------------
(* format_time *)

\* {:0>6.3} of the seconds, given in thousandths after rounding.
FormatSeconds(thousandths) ==
    PadLeft(ToDigits(thousandths \div 1000) \o <<".">>
            \o PadLeft(ToDigits(thousandths % 1000), 3, "0"), 6, "0")

\* format_time taking the minutes from the whole time, not the remainder.
format_time_total_minutes(time) ==
    LET ip == F32IntPart(time)
        h == ip \div 3600
        m == ip \div 60
        s == (ip % 60) * 1000 + RoundMillis(F32FracNum(time), -time.e)
    IN  Replace(PadLeft(ToDigits(h), 2, "0") \o <<":">>
                \o PadLeft(ToDigits(m), 2, "0") \o <<":">>
                \o FormatSeconds(s), ".", ",")

format_time(time) ==
    LET ip == F32IntPart(time)
        h == ip \div 3600
        rem == ip % 3600
        m == rem \div 60
        s == (rem % 60) * 1000 + RoundMillis(F32FracNum(time), -time.e)
    IN  Replace(PadLeft(ToDigits(h), 2, "0") \o <<":">>
                \o PadLeft(ToDigits(m), 2, "0") \o <<":">>
                \o FormatSeconds(s), ".", ",")

-----------------------------------------------------------------------------
(* The data model *)

\* Period::new: an interval exists only if begin < end.
Period_new(begin, end) ==
    IF F32Lt(begin, end)
    THEN [ok |-> TRUE, period |-> [begin |-> begin, end |-> end]]
    ELSE [ok |-> FALSE, period |-> None]

\* Period::shift: both endpoints moved by the offset.
Period_shift(p, time_offset) ==
    [begin |-> F32Add(p.begin, time_offset), end |-> F32Add(p.end, time_offset)]

Subtitle(index, period, ls) == [index |-> index, period |-> period, lines |-> ls]

SubtitleFile(subs) == [subtitles |-> subs]

-----------------------------------------------------------------------------
(* The grammar.  A rule takes the text s and a position i and returns      *)
(* st = "ok" with its value v and the next position i, st = "fail" when it *)
(* does not match at i, or st = "panic" when its action aborts.            *)

POk(v, i) == [st |-> "ok", v |-> v, i |-> i]
PFail == [st |-> "fail", v |-> None, i |-> 0]
PPanic == [st |-> "panic", v |-> None, i |-> 0]

At(s, i, c) == i <= Len(s) /\ s[i] = c

\* A rule followed by the rest of a sequence: F continues from the match of
\* r; a mismatch or an abort of r is that of the sequence.
AndThen(r, F(_)) == CHOOSE v \in {IF x.st = "ok" THEN F(x) ELSE x : x \in {r}} : TRUE

\* A literal: the position after it, or 0.
RECURSIVE Literal(_, _, _)
Literal(s, i, lit) ==
    IF Len(lit) = 0 THEN i
    ELSE IF At(s, i, Head(lit)) THEN Literal(s, i + 1, Tail(lit))
    ELSE 0

\* usize::MAX of a 64-bit target, as its decimal digits.
UsizeMaxDigits ==
    <<"1", "8", "4", "4", "6", "7", "4", "4", "0", "7",
      "3", "7", "0", "9", "5", "5", "1", "6", "1", "5">>

RECURSIVE StripZeros(_)
StripZeros(ds) ==
    IF Len(ds) > 1 /\ Head(ds) = "0" THEN StripZeros(Tail(ds)) ELSE ds

\* a <= b for digit strings of the same length.
RECURSIVE DigitsLeq(_, _)
DigitsLeq(a, b) ==
    IF Len(a) = 0 THEN TRUE
    ELSE IF DigitVal(Head(a)) < DigitVal(Head(b)) THEN TRUE
    ELSE IF DigitVal(Head(a)) > DigitVal(Head(b)) THEN FALSE
    ELSE DigitsLeq(Tail(a), Tail(b))

\* usize::from_str succeeds iff the numeral is at most usize::MAX.
FitsUsize(ds) ==
    LET z == StripZeros(ds)
    IN  Len(z) < Len(UsizeMaxDigits)
        \/ (Len(z) = Len(UsizeMaxDigits) /\ DigitsLeq(z, UsizeMaxDigits))

RECURSIVE DigitsFrom(_, _, _)
DigitsFrom(ds, k, acc) ==
    IF k > Len(ds) THEN acc ELSE DigitsFrom(ds, k + 1, 10 * acc + DigitVal(ds[k]))

\* The number a numeral denotes.
DigitsValue(ds) == Strict(ds, LAMBDA x : DigitsFrom(x, 1, 0))

\* The end of the run ['0'..='9']* starting at i.
RECURSIVE DigitRun(_, _)
DigitRun(s, i) ==
    IF i <= Len(s) /\ IsDigit(s[i]) THEN DigitRun(s, i + 1) ELSE i

\* newline() without the optional carriage return.
newline_lf_only(s, i) ==
    IF At(s, i, LF) THEN POk(None, i + 1) ELSE PFail

\* rule newline() = "\r"? "\n"
newline(s, i) ==
    LET j == IF At(s, i, CR) THEN i + 1 ELSE i
    IN  IF At(s, j, LF) THEN POk(None, j + 1) ELSE PFail

RECURSIVE SkipNewlines(_, _)
SkipNewlines(s, i) ==
    LET n == newline(s, i)
    IN  IF n.st = "ok" THEN SkipNewlines(s, n.i) ELSE i

\* rule blank_lines() = newline()+
blank_lines(s, i) ==
    LET n == newline(s, i)
    IN  IF n.st = "ok" THEN POk(None, SkipNewlines(s, n.i)) ELSE PFail

\* rule digits() -> usize = digits:$(['0'..='9']+) { from_str(digits).unwrap() }
digits(s, i) ==
    LET j == DigitRun(s, i)
    IN  IF j = i THEN PFail
        ELSE IF ~FitsUsize(SubSeq(s, i, j - 1)) THEN PPanic
        ELSE POk(DigitsValue(SubSeq(s, i, j - 1)), j)

\* rule comma_float() -> f32: "," becomes "." and f32::from_str rounds the
\* decimal numeral to the nearest f32.
comma_float(s, i) ==
    LET j == DigitRun(s, i)
        k == DigitRun(s, j + 1)
    IN  IF j = i \/ ~At(s, j, ",") \/ k = j + 1 THEN PFail
        ELSE POk(F32OfDecimal(DigitsValue(SubSeq(s, i, j - 1)),
                              DigitsValue(SubSeq(s, j + 1, k - 1)),
                              10^(k - j - 1)), k)

\* rule time() -> f32 = hh:digits() ":" mm:digits() ":" ss:comma_float()
time(s, i) ==
    AndThen(digits(s, i), LAMBDA hh :
        IF ~At(s, hh.i, ":") THEN PFail
        ELSE AndThen(digits(s, hh.i + 1), LAMBDA mm :
            IF ~At(s, mm.i, ":") THEN PFail
            ELSE AndThen(comma_float(s, mm.i + 1), LAMBDA ss :
                POk(F32Add(F32Add(F32OfInt(hh.v * 3600), F32OfInt(mm.v * 60)),
                           ss.v), ss.i))))

\* The f32 literal 0.001.
Millisecond == F32OfDecimal(0, 1, 1000)

\* The action of rule time_period().
MakePeriod(begin, end) ==
    Period_new(begin, IF begin = end THEN F32Add(end, Millisecond) ELSE end)

\* rule time_period() -> Period = begin:time() " --> " end:time() {? ... }
time_period(s, i) ==
    AndThen(time(s, i), LAMBDA begin :
        Strict(Literal(s, begin.i, <<" ", "-", "-", ">", " ">>), LAMBDA a :
            IF a = 0 THEN PFail
            ELSE AndThen(time(s, a), LAMBDA end :
                Strict(MakePeriod(begin.v, end.v), LAMBDA p :
                    IF p.ok THEN POk(p.period, end.i) ELSE PFail))))

\* The end of the run [^ '\r' | '\n']* starting at i.
RECURSIVE LineRun(_, _)
LineRun(s, i) ==
    IF i <= Len(s) /\ s[i] # CR /\ s[i] # LF THEN LineRun(s, i + 1) ELSE i

\* rule line() -> String = text:$([^ '\r' | '\n']+)
line(s, i) ==
    LET j == LineRun(s, i)
    IN  IF j = i THEN PFail ELSE POk(SubSeq(s, i, j - 1), j)

\* newline() line(), one more item of line() ** newline().
NextLine(s, i) == AndThen(newline(s, i), LAMBDA n : line(s, n.i))

\* The tail of line() ** newline(): (newline() line())*
RECURSIVE LinesRest(_, _, _)
LinesRest(s, i, acc) ==
    Strict(NextLine(s, i), LAMBDA l :
        IF l.st = "ok" THEN LinesRest(s, l.i, Append(acc, l.v))
        ELSE POk(acc, i))

\* lines() with at least one line: line() ++ newline().
lines_nonempty(s, i) ==
    Strict(line(s, i), LAMBDA l :
        IF l.st = "ok" THEN LinesRest(s, l.i, <<l.v>>) ELSE PFail)

\* rule lines() -> Vec<String> = lines:line() ** newline()
lines(s, i) ==
    Strict(line(s, i), LAMBDA l :
        IF l.st = "ok" THEN LinesRest(s, l.i, <<l.v>>) ELSE POk(<<>>, i))

\* rule subtitle() = index:digits() newline() p:time_period() newline() l:lines()
subtitle(s, i) ==
    AndThen(digits(s, i), LAMBDA index :
        AndThen(newline(s, index.i), LAMBDA n1 :
            AndThen(time_period(s, n1.i), LAMBDA p :
                AndThen(newline(s, p.i), LAMBDA n2 :
                    AndThen(lines(s, n2.i), LAMBDA l :
                        POk(Subtitle(index.v, p.v, l.v), l.i))))))

\* blank_lines() subtitle(), one more item of subtitle() ** blank_lines().
NextSubtitle(s, i) == AndThen(blank_lines(s, i), LAMBDA b : subtitle(s, b.i))

\* The tail of subtitle() ** blank_lines(): (blank_lines() subtitle())*
RECURSIVE SubtitlesRest(_, _, _)
SubtitlesRest(s, i, acc) ==
    Strict(NextSubtitle(s, i), LAMBDA sub :
        IF sub.st = "panic" THEN PPanic
        ELSE IF sub.st = "ok" THEN SubtitlesRest(s, sub.i, Append(acc, sub.v))
        ELSE POk(acc, i))

\* subtitles() with at least one subtitle: subtitle() ++ blank_lines().
subtitles_nonempty(s, i) ==
    Strict(subtitle(s, i), LAMBDA sub :
        IF sub.st = "ok" THEN SubtitlesRest(s, sub.i, <<sub.v>>) ELSE sub)

\* rule subtitles() -> Vec<Subtitle> = subs:subtitle() ** blank_lines()
subtitles(s, i) ==
    Strict(subtitle(s, i), LAMBDA sub :
        IF sub.st = "panic" THEN PPanic
        ELSE IF sub.st = "ok" THEN SubtitlesRest(s, sub.i, <<sub.v>>)
        ELSE POk(<<>>, i))

\* A position after an optional blank_lines().
OptBlankLines(s, i) ==
    Strict(blank_lines(s, i), LAMBDA b : IF b.st = "ok" THEN b.i ELSE i)

\* pub rule subtitle_file() = blank_lines()? result:subtitles() blank_lines()?
\* and the end of the input.
subtitle_file(s) ==
    AndThen(subtitles(s, OptBlankLines(s, 1)), LAMBDA subs :
        IF OptBlankLines(s, subs.i) = Len(s) + 1
        THEN POk(SubtitleFile(subs.v), Len(s) + 1)
        ELSE PFail)

\* str::trim_start_matches("\u{FEFF}")
RECURSIVE TrimStartBOM(_)
TrimStartBOM(data) ==
    IF Len(data) > 0 /\ Head(data) = BOM THEN TrimStartBOM(Tail(data)) ELSE data

\* SubtitleFile::from_str: Ok(file), Err("could not parse subtitles"), or
\* the abort of an unwrap.
from_str(data) ==
    Strict(subtitle_file(TrimStartBOM(data)), LAMBDA r :
        IF r.st = "ok" THEN [st |-> "ok", file |-> r.v]
        ELSE IF r.st = "panic" THEN [st |-> "panic", file |-> None]
        ELSE [st |-> "err", file |-> None])

-----------------------------------------------------------------------------
(* The serializer *)

\* Subtitle::to_string
Subtitle_to_string(sub) ==
    ToDigits(sub.index) \o <<LF>>
    \o format_time(sub.period.begin) \o <<" ", "-", "-", ">", " ">>
    \o format_time(sub.period.end) \o <<LF>>
    \o Join(sub.lines, <<LF>>) \o <<LF>>

\* SubtitleFile::to_string without the byte-order mark.
SubtitleFile_to_string_no_bom(file) ==
    Join([k \in 1..Len(file.subtitles) |->
             Subtitle_to_string(file.subtitles[k])], <<LF>>)

\* SubtitleFile::to_string
SubtitleFile_to_string(file) ==
    <<BOM>> \o Join([k \in 1..Len(file.subtitles) |->
                        Subtitle_to_string(file.subtitles[k])], <<LF>>)

\* SubtitleFile::find: the first subtitle with the index, as a reference
\* (its position at and the subtitle sub it points to), or nothing.
RECURSIVE FindFrom(_, _, _)
FindFrom(subs, k, index) ==
    IF k > Len(subs) THEN [some |-> FALSE, at |-> 0, sub |-> None]
    ELSE IF subs[k].index = index THEN [some |-> TRUE, at |-> k, sub |-> subs[k]]
    ELSE FindFrom(subs, k + 1, index)

\* find returning the last subtitle with the index.
find_last(file, index) ==
    LET hits == {k \in 1..Len(file.subtitles) : file.subtitles[k].index = index}
    IN  IF hits = {} THEN [some |-> FALSE, at |-> 0, sub |-> None]
        ELSE LET k == CHOOSE x \in hits : \A y \in hits : y <= x
             IN  [some |-> TRUE, at |-> k, sub |-> file.subtitles[k]]

find(file, index) == FindFrom(file.subtitles, 1, index)

\* append_with_offset restarting the numbering at 1 for the second file.
append_with_offset_restart(a, b, time_offset) ==
    SubtitleFile(
        [k \in 1..Len(a.subtitles) |-> [a.subtitles[k] EXCEPT !.index = k]]
        \o [k \in 1..Len(b.subtitles) |->
               [b.subtitles[k] EXCEPT !.index = k,
                                      !.period = Period_shift(@, time_offset)]])

\* AppendWithOffset for SubtitleFile: the value of self afterwards.
append_with_offset(a, b, time_offset) ==
    LET n == Len(a.subtitles)
        first == [k \in 1..n |-> [a.subtitles[k] EXCEPT !.index = k]]
        second == [k \in 1..Len(b.subtitles) |->
                      [b.subtitles[k] EXCEPT !.index = n + k,
                                             !.period = Period_shift(@, time_offset)]]
    IN  SubtitleFile(first \o second)

-----------------------------------------------------------------------------
(* Input texts.  A shape describes a text: its entries as written (index   *)
(* numeral, begin and end as hour, minute, second and millisecond, text    *)
(* lines) and its layout (leading BOMs, blank lines before, between and    *)
(* line breaks after the entries, CR LF or LF).                            *)

MaxEntries == 2
MaxBOM == 2
MaxBlank == 2

Stamp(h, m, s, ms) == [h |-> h, m |-> m, s |-> s, ms |-> ms]

\* HH:MM:SS,mmm
StampText(x) ==
    PadLeft(ToDigits(x.h), 2, "0") \o <<":">> \o PadLeft(ToDigits(x.m), 2, "0")
    \o <<":">> \o PadLeft(ToDigits(x.s), 2, "0") \o <<",">>
    \o PadLeft(ToDigits(x.ms), 3, "0")

StampMillis(x) == ((x.h * 60 + x.m) * 60 + x.s) * 1000 + x.ms

IndexTexts ==
    { <<"1">>, <<"1", "6">>, <<"0", "1", "6">>,
      <<"1", "8", "4", "4", "6", "7", "4", "4", "0", "7",
        "3", "7", "0", "9", "5", "5", "1", "6", "1", "6">> }

\* Begin and end as written: ordinary ranges, zero-length ranges, reversed
\* ranges, and ranges beyond 2^14 and 2^15 seconds, where an f32 no longer
\* holds every millisecond.
Ranges ==
    { <<Stamp(0, 1, 2, 328), Stamp(0, 1, 4, 664)>>,
      <<Stamp(0, 0, 1, 0), Stamp(0, 0, 1, 0)>>,
      <<Stamp(0, 1, 4, 664), Stamp(0, 1, 2, 328)>>,
      <<Stamp(4, 33, 3, 998), Stamp(4, 33, 3, 999)>>,
      <<Stamp(4, 33, 4, 1), Stamp(4, 33, 5, 0)>>,
      <<Stamp(4, 33, 4, 2), Stamp(4, 33, 4, 1)>>,
      <<Stamp(9, 6, 7, 0), Stamp(9, 6, 7, 0)>>,
      <<Stamp(10, 0, 0, 0), Stamp(10, 0, 0, 0)>> }

LineLists ==
    { <<>>, << <<"H", "i">> >>, << <<"<", "i", ">", "H", "i">>, <<"7">> >> }

Entry(idx, r, ls) == [idx |-> idx, b |-> r[1], e |-> r[2], lines |-> ls]

Entries == {Entry(idx, r, ls) : idx \in IndexTexts, r \in Ranges, ls \in LineLists}

\* The entries that follow the first one.
LaterEntries ==
    { Entry(<<"1", "7">>, <<Stamp(0, 1, 12, 839), Stamp(0, 1, 13, 839)>>,
            << <<"H", "i">> >>),
      Entry(<<"2">>, <<Stamp(0, 0, 2, 0), Stamp(0, 0, 1, 0)>>, << <<"H", "i">> >>),
      Entry(<<"2">>, <<Stamp(0, 0, 2, 0), Stamp(0, 0, 3, 0)>>, <<>>) }

RECURSIVE EntryLists(_)
EntryLists(n) ==
    IF n = 0 THEN {<<>>}
    ELSE IF n = 1 THEN {<<>>} \cup {<<e>> : e \in Entries}
    ELSE EntryLists(n - 1)
         \cup {Append(l, e) : l \in {x \in EntryLists(n - 1) : Len(x) = n - 1},
                              e \in LaterEntries}

\* The entry lists that are laid out in every way.
RECURSIVE LaidOutLists(_)
LaidOutLists(n) ==
    IF n = 0 THEN {<<>>}
    ELSE LaidOutLists(n - 1)
         \cup {Append(l, e) : l \in {x \in LaidOutLists(n - 1) : Len(x) = n - 1},
                              e \in LaterEntries}

Layout(nbom, lead, sep, trail, crlf) ==
    [nbom |-> nbom, lead |-> lead, sep |-> sep, trail |-> trail, crlf |-> crlf]

Canonical == Layout(1, 0, 1, 1, FALSE)

Layouts ==
    {Layout(nbom, lead, sep, trail, crlf) :
        nbom \in 0..MaxBOM, lead \in 0..MaxBlank, sep \in 1..MaxBlank,
        trail \in 0..MaxBlank, crlf \in BOOLEAN}

Shapes ==
    {[layout |-> Canonical, entries |-> l] : l \in EntryLists(MaxEntries)}
    \cup {[layout |-> y, entries |-> l] : y \in Layouts, l \in LaidOutLists(MaxEntries)}

EntryText(e, nl) ==
    e.idx \o nl \o StampText(e.b) \o <<" ", "-", "-", ">", " ">> \o StampText(e.e)
    \o nl \o Join(e.lines, nl)

RECURSIVE Times(_, _)
Times(s, n) == IF n = 0 THEN <<>> ELSE s \o Times(s, n - 1)

\* The text of a shape.
Render(sh) ==
    LET nl == IF sh.layout.crlf THEN <<CR, LF>> ELSE <<LF>>
    IN  Repeat(BOM, sh.layout.nbom) \o Times(nl, sh.layout.lead)
        \o Join([k \in 1..Len(sh.entries) |-> EntryText(sh.entries[k], nl)],
                Times(nl, 1 + sh.layout.sep))
        \o Times(nl, sh.layout.trail)

CanonicalShape(sh) == [layout |-> Canonical, entries |-> sh.entries]

-----------------------------------------------------------------------------
(* Parsing and serializing: from_str on a text, to_string on its result *)

Init ==
    /\ pc = "start"
    /\ shape \in Shapes
    /\ text = Render(shape)
    /\ res = None
    /\ out = None
    /\ self = None /\ before = None /\ other = None /\ offset = None
    /\ arg = None /\ found = None /\ t = None /\ fmt = None

FromStr ==
    /\ pc = "start"
    /\ res' = from_str(text)
    /\ pc' = "parsed"
    /\ UNCHANGED <<shape, text, out, fileVars, timeVars>>

FileToString ==
    /\ pc = "parsed"
    /\ res.st = "ok"
    /\ out' = SubtitleFile_to_string(res.file)
    /\ pc' = "printed"
    /\ UNCHANGED <<shape, text, res, fileVars, timeVars>>

Next == FromStr \/ FileToString

Spec == Init /\ [][Next]_vars

-----------------------------------------------------------------------------
(* Files built directly: find and append_with_offset *)

MaxSubs == 2
MaxOffset == 2

WholeSeconds(b, e) == [begin |-> F32OfInt(b), end |-> F32OfInt(e)]

SubPool ==
    {Subtitle(i, p, << <<"H", "i">> >>) :
        i \in {1, 7}, p \in {WholeSeconds(1, 3), WholeSeconds(0, 2)}}

RECURSIVE SubLists(_)
SubLists(n) ==
    IF n = 0 THEN {<<>>}
    ELSE SubLists(n - 1)
         \cup {Append(l, x) : l \in {y \in SubLists(n - 1) : Len(y) = n - 1},
                              x \in SubPool}

Files == {SubtitleFile(l) : l \in SubLists(MaxSubs)}

FindArgs == {0, 1, 2, 7}

InitFile ==
    /\ pc = "ready"
    /\ self \in Files
    /\ before = None /\ other = None /\ offset = None
    /\ arg = None /\ found = None
    /\ shape = None /\ text = None /\ res = None /\ out = None
    /\ t = None /\ fmt = None

AppendWithOffset ==
    /\ pc = "ready"
    /\ \E b \in Files, off \in 0..MaxOffset :
        /\ other' = b
        /\ offset' = F32OfInt(off)
        /\ self' = append_with_offset(self, b, F32OfInt(off))
    /\ before' = self
    /\ pc' = "appended"
    /\ UNCHANGED <<arg, found, parseVars, timeVars>>

Find ==
    /\ pc \in {"ready", "appended"}
    /\ \E i \in FindArgs :
        /\ arg' = i
        /\ found' = find(self, i)
    /\ before' = self
    /\ pc' = "found"
    /\ UNCHANGED <<self, other, offset, parseVars, timeVars>>

NextFile == AppendWithOffset \/ Find

SpecFile == InitFile /\ [][NextFile]_vars

-----------------------------------------------------------------------------
(* format_time on its own *)

MaxHour == 100

\* Times in ten-thousandths of a second.
TimeInputs ==
    {F32OfDecimal((h * 60 + m) * 60 + s, f, 10000) :
        h \in {0, 1, 4, 9, MaxHour}, m \in {0, 1, 59}, s \in {0, 1, 21, 59},
        f \in {0, 6, 10, 625, 3280, 5000, 9996}}

InitTime ==
    /\ pc = "start"
    /\ t \in TimeInputs
    /\ fmt = None
    /\ shape = None /\ text = None /\ res = None /\ out = None
    /\ self = None /\ before = None /\ other = None /\ offset = None
    /\ arg = None /\ found = None

FormatTime ==
    /\ pc = "start"
    /\ fmt' = format_time(t)
    /\ pc' = "formatted"
    /\ UNCHANGED <<t, parseVars, fileVars>>

NextTime == FormatTime

SpecTime == InitTime /\ [][NextTime]_vars

-----------------------------------------------------------------------------
(* Properties of format_time (SpecTime) *)

Chars(f, a, b) == SubSeq(f, a, b)

AllDigits(f) == \A k \in 1..Len(f) : IsDigit(f[k])

\* x thousandths is a nearest value to fn / 2^k.
NearestMillis(x, fn, k) ==
    IF k <= 3 THEN x * 2^k = fn * 1000
    ELSE IF k <= 33 THEN
        LET q == (fn * 125) \div 2^(k - 3)
            r == (fn * 125) % 2^(k - 3)
            half == 2^(k - 4)
        IN  (x = q /\ r <= half) \/ (x = q + 1 /\ r >= half)
    ELSE IF k = 34 THEN (x = 0 /\ fn * 125 <= 2^30) \/ (x = 1 /\ fn * 125 >= 2^30)
    ELSE x = 0

\* C7: for a non-negative time t, format_time(t) is HH:MM:SS,mmm: HH is the
\* truncated t/3600 padded with zeros to at least two digits, MM is the
\* truncated (t mod 3600)/60 in two digits, and SS,mmm is (t mod 3600) mod 60
\* in two integer digits and exactly three fractional digits after a comma;
\* format_time(3681.5) = 01:01:21,500, format_time(61.5) = 00:01:01,500 and
\* format_time(0.0) = 00:00:00,000.
C7_FormatTime ==
    pc = "formatted" =>
        LET n == Len(fmt)
            ip == F32IntPart(t)
        IN  /\ n >= 12
            /\ fmt[n - 9] = ":" /\ fmt[n - 6] = ":" /\ fmt[n - 3] = ","
            /\ AllDigits(Chars(fmt, 1, n - 10))
            /\ AllDigits(Chars(fmt, n - 8, n - 7))
            /\ AllDigits(Chars(fmt, n - 5, n - 4))
            /\ AllDigits(Chars(fmt, n - 2, n))
            /\ n = 12 \/ fmt[1] # "0"
            /\ DigitsValue(Chars(fmt, 1, n - 10)) = ip \div 3600
            /\ DigitsValue(Chars(fmt, n - 8, n - 7)) = (ip % 3600) \div 60
            /\ NearestMillis(DigitsValue(Chars(fmt, n - 5, n - 4)) * 1000
                             + DigitsValue(Chars(fmt, n - 2, n))
                             - (ip % 60) * 1000,
                             F32FracNum(t), -t.e)
            /\ t = F32OfDecimal(3681, 5, 10)
                => fmt = <<"0", "1", ":", "0", "1", ":", "2", "1", ",", "5", "0", "0">>
            /\ t = F32OfDecimal(61, 5, 10)
                => fmt = <<"0", "0", ":", "0", "1", ":", "0", "1", ",", "5", "0", "0">>
            /\ t = F32Zero
                => fmt = <<"0", "0", ":", "0", "0", ":", "0", "0", ",", "0", "0", "0">>

C7_Witness ==
    /\ pc = "formatted"
    /\ t = F32OfDecimal(3681, 5, 10)
    /\ fmt = <<"0", "1", ":", "0", "1", ":", "2", "1", ",", "5", "0", "0">>

-----------------------------------------------------------------------------
(* Properties of find and append_with_offset (SpecFile) *)

\* C8: find(index) returns the first subtitle in file order whose index is
\* the argument, also when later subtitles carry the same index, returns
\* nothing when no subtitle has that index, and leaves the file unchanged.
C8_FindFirst ==
    pc = "found" =>
        LET subs == before.subtitles
        IN  /\ self = before
            /\ IF \E k \in 1..Len(subs) : subs[k].index = arg
               THEN /\ found.some
                    /\ found.at \in 1..Len(subs)
                    /\ subs[found.at].index = arg
                    /\ \A j \in 1..(found.at - 1) : subs[j].index # arg
                    /\ found.sub = subs[found.at]
               ELSE ~found.some

C8_Witness ==
    /\ pc = "found"
    /\ found.some
    /\ \E j \in (found.at + 1)..Len(self.subtitles) :
        /\ self.subtitles[j].index = arg
        /\ self.subtitles[j] # found.sub

IsWhole(x) == F32FracNum(x) = 0

\* C2: after A.append_with_offset(B, t), A holds its n subtitles followed by
\* the m subtitles of B in their order, the k-th subtitle has index k for
\* every k in 1..n+m, the periods of A's subtitles are unchanged, and begin
\* and end of each of B's periods are increased by exactly t.
C2_AppendWithOffset ==
    pc = "appended" =>
        LET a == before.subtitles
            b == other.subtitles
            r == self.subtitles
            n == Len(a)
        IN  /\ Len(r) = n + Len(b)
            /\ \A k \in 1..Len(r) : r[k].index = k
            /\ \A k \in 1..n :
                r[k].period = a[k].period /\ r[k].lines = a[k].lines
            /\ \A k \in 1..Len(b) :
                /\ r[n + k].lines = b[k].lines
                /\ IsWhole(r[n + k].period.begin) /\ IsWhole(r[n + k].period.end)
                /\ F32IntPart(r[n + k].period.begin)
                    = F32IntPart(b[k].period.begin) + F32IntPart(offset)
                /\ F32IntPart(r[n + k].period.end)
                    = F32IntPart(b[k].period.end) + F32IntPart(offset)

C2_Witness ==
    /\ pc = "appended"
    /\ Len(before.subtitles) = MaxSubs
    /\ Len(other.subtitles) = MaxSubs
    /\ before.subtitles[1].index = 7
    /\ other.subtitles[1].index = 7
    /\ F32IntPart(offset) = MaxOffset
    /\ self.subtitles[MaxSubs + 1].index = MaxSubs + 1
    /\ self.subtitles[MaxSubs + 1].period # other.subtitles[1].period

-----------------------------------------------------------------------------
(* Properties of from_str and to_string (Spec) *)

Parsed == pc \in {"parsed", "printed"}

\* 2^14 seconds in milliseconds: below it an f32 tells any two millisecond
\* stamps apart.
ExactBelow == 2^14 * 1000

PlainIndex(idx) == (Len(idx) = 1 \/ Head(idx) # "0") /\ FitsUsize(idx)

HasEntries(sh) == Len(sh.entries) >= 1

AllHaveLines(sh) == \A k \in 1..Len(sh.entries) : Len(sh.entries[k].lines) >= 1

AllFit(sh) == \A k \in 1..Len(sh.entries) : FitsUsize(sh.entries[k].idx)

AllPlain(sh) == \A k \in 1..Len(sh.entries) : PlainIndex(sh.entries[k].idx)

AllBelow(sh) ==
    \A k \in 1..Len(sh.entries) :
        /\ StampMillis(sh.entries[k].b) < ExactBelow
        /\ StampMillis(sh.entries[k].e) < ExactBelow

AllForward(sh) ==
    \A k \in 1..Len(sh.entries) :
        StampMillis(sh.entries[k].b) < StampMillis(sh.entries[k].e)

NoneReversed(sh) ==
    \A k \in 1..Len(sh.entries) :
        StampMillis(sh.entries[k].b) <= StampMillis(sh.entries[k].e)

SomeReversed(sh) ==
    \E k \in 1..Len(sh.entries) :
        StampMillis(sh.entries[k].e) < StampMillis(sh.entries[k].b)

\* The f32 nearest to a time as written.
F32OfStamp(x) == F32OfDecimal((x.h * 60 + x.m) * 60 + x.s, x.ms, 1000)

C3_ReversedRejected ==
    (Parsed /\ SomeReversed(shape) /\ AllHaveLines(shape) /\ AllFit(shape))
    => res.st = "err" /\ res.file = None

\* C4: an entry whose range has begin equal to end parses, to a period with
\* the begin as written and end = begin + 0.001; a range with begin < end is
\* stored unchanged; so every subtitle of a parsed file has begin < end.
\* (Ranges not reversed, entries with text lines, indices within usize.)
C4_ZeroLengthFixed ==
    (Parsed /\ NoneReversed(shape) /\ AllHaveLines(shape) /\ AllFit(shape))
    => /\ res.st = "ok"
       /\ Len(res.file.subtitles) = Len(shape.entries)
       /\ \A k \in 1..Len(shape.entries) :
            LET p == res.file.subtitles[k].period
                b == shape.entries[k].b
                e == shape.entries[k].e
            IN  /\ p.begin = F32OfStamp(b)
                /\ p.end = IF b = e THEN F32Add(F32OfStamp(b), Millisecond)
                                    ELSE F32OfStamp(e)
                /\ F32Lt(p.begin, p.end)

HasCR(s) == \E k \in 1..Len(s) : s[k] = CR

Run3LF(s) == \E k \in 1..(Len(s) - 2) : s[k] = LF /\ s[k + 1] = LF /\ s[k + 2] = LF

BlankLinesIn(s) == Cardinality({k \in 1..(Len(s) - 1) : s[k] = LF /\ s[k + 1] = LF})

\* C5: from_str yields the same result as for the canonical text when the
\* input differs from it only by the number of leading BOMs (none included),
\* the positive number of blank lines between entries, the number of blank
\* lines at the start and the end, and CR LF for LF; and to_string of the
\* result begins with exactly one BOM, has bare LF line breaks only and
\* exactly one blank line between consecutive entries.
C5_InputTolerance ==
    (Parsed /\ HasEntries(shape) /\ AllHaveLines(shape))
    => /\ res = from_str(Render(CanonicalShape(shape)))
       /\ pc = "printed" =>
            /\ out[1] = BOM /\ out[2] # BOM
            /\ ~HasCR(out)
            /\ ~Run3LF(out)
            /\ BlankLinesIn(out) = Len(res.file.subtitles) - 1
            /\ out[Len(out)] = LF /\ out[Len(out) - 1] # LF

C5_Witness ==
    /\ pc = "printed"
    /\ shape.layout.crlf
    /\ shape.layout.nbom = 0
    /\ shape.layout.lead = MaxBlank
    /\ shape.layout.sep = MaxBlank
    /\ shape.layout.trail = MaxBlank
    /\ Len(shape.entries) = MaxEntries
    /\ AllHaveLines(shape)
    /\ Len(res.file.subtitles) = MaxEntries
    /\ BlankLinesIn(out) = MaxEntries - 1

NoBlankLine(ls) ==
    \A j \in 1..Len(ls) :
        Len(ls[j]) >= 1 /\ \A c \in 1..Len(ls[j]) : ls[j][c] # CR /\ ls[j][c] # LF

\* C6, as claimed: every subtitle of a parsed file has a non-empty sequence
\* of lines, each with at least one character and no CR or LF.
C6_LinesNonEmpty ==
    (Parsed /\ res.st = "ok")
    => \A k \in 1..Len(res.file.subtitles) :
            /\ Len(res.file.subtitles[k].lines) >= 1
            /\ NoBlankLine(res.file.subtitles[k].lines)

\* C6, amended: every line of every subtitle of a parsed file has at least
\* one character and no CR or LF, but the sequence of lines may be empty: an
\* entry of an index and a time range with no text line is accepted and gives
\* a subtitle with zero lines.  (Ranges forward below 2^14 s, indices within
\* usize: the file parses and each subtitle has the lines written.)
C6_LinesMayBeEmpty ==
    /\ (Parsed /\ res.st = "ok")
        => \A k \in 1..Len(res.file.subtitles) :
                NoBlankLine(res.file.subtitles[k].lines)
    /\ (Parsed /\ AllForward(shape) /\ AllBelow(shape) /\ AllFit(shape))
        => /\ res.st = "ok"
           /\ Len(res.file.subtitles) = Len(shape.entries)
           /\ \A k \in 1..Len(shape.entries) :
                res.file.subtitles[k].lines = shape.entries[k].lines

C6_Witness ==
    /\ Parsed
    /\ res.st = "ok"
    /\ Len(res.file.subtitles) = MaxEntries
    /\ res.file.subtitles[1].lines = <<>>
    /\ Len(res.file.subtitles[MaxEntries].lines) >= 1

\* C9, as claimed: an input with no entry at all (the empty text, only BOMs,
\* only blank lines) does not match the grammar: from_str returns an error.
C9_NeedsOneSubtitle ==
    (Parsed /\ ~HasEntries(shape)) => res.st = "err"

\* C9, amended: the grammar admits zero subtitles: for an input with no entry
\* at all (the empty text, only BOMs, only blank lines) from_str returns a
\* SubtitleFile with zero subtitles.
C9_EmptyFileParses ==
    (Parsed /\ ~HasEntries(shape))
    => res.st = "ok" /\ res.file.subtitles = <<>>

C9_Witness ==
    /\ Parsed
    /\ text = <<>>
    /\ res.st = "ok"
    /\ res.file.subtitles = <<>>

\* C10: from_str is total: for every text it returns a SubtitleFile or an
\* error and never aborts, also for a numeral beyond the unsigned range.
C10_Total ==
    Parsed => res.st \in {"ok", "err"}

====
